---- MODULE Spec2Model ----
(***************************************************************************)
(* The CSV ingestion pipeline of app/main.py: upload_csv starts a producer *)
(* task (process_csv_async) that parses the file chunk by chunk and puts   *)
(* one batch per chunk on the asyncio queue; five worker tasks take        *)
(* batches from the queue and insert each in one database transaction,     *)
(* putting the batch back on the queue when the attempt raises.            *)
(*                                                                         *)
(* A step of the model is the code between two points where a task can be  *)
(* suspended (an await on the session or on an empty queue).  A put on the *)
(* unbounded queue never suspends, so it belongs to the step that reaches  *)
(* it, and the producer, whose only await is such a put, is one step.      *)
(***************************************************************************)
EXTENDS Integers, Sequences, FiniteSets, TLC

\* main.py:58  for _ in range(5): asyncio.create_task(worker())
NumWorkers == 5

\* main.py:71  chunk_size = 1000, scaled down
chunk_size == 2

\* number of upload requests a run makes
MaxUploads == 2
\* largest number of data rows in an uploaded file
MaxRows == 3
\* how many persistence attempts may raise in a run
MaxFailures == 1
\* how many times db.rollback() may raise in a run
MaxRollbackFailures == 1
\* most rows in the table when GET /users/ is asked, largest page and limit
MaxStored == 25
MaxPage == 4
MaxLimit == 10

Workers == 1..NumWorkers
Uploads == 1..MaxUploads

Min(a, b) == IF a < b THEN a ELSE b

(***************************************************************************)
(* An uploaded file.  csv: the filename ends in ".csv".  decodable: the    *)
(* bytes are UTF-8.  nrows: data rows after the header.  bad: the chunk    *)
(* whose parsing raises (a missing column raises in chunk 1, an unreadable *)
(* row in the chunk that holds it), 0 when every chunk parses.             *)
(***************************************************************************)
\* a reader that yields one more, empty, chunk when the rows fill the last
NumChunksExtra(n) == n \div chunk_size + 1

\* pd.read_csv(..., chunksize=chunk_size): a file with no data rows still
\* yields one (empty) chunk, any other file ceil(nrows / chunk_size) chunks
NumChunks(n) == IF n = 0 THEN 1 ELSE (n + chunk_size - 1) \div chunk_size

NoFile == [csv |-> FALSE, decodable |-> FALSE, nrows |-> 0, bad |-> 0]

\* a file whose name is refused or whose bytes do not decode is never parsed,
\* so one file stands for each of these
Files ==
    {[csv |-> FALSE, decodable |-> TRUE, nrows |-> 1, bad |-> 0]}
    \cup {[csv |-> TRUE, decodable |-> FALSE, nrows |-> 1, bad |-> 0]}
    \cup {f \in [csv : {TRUE}, decodable : {TRUE}, nrows : 0..MaxRows,
                  bad : 0..NumChunks(MaxRows)] : f.bad <= NumChunks(f.nrows)}

Malformed(f) == ~f.decodable \/ f.bad # 0

\* models.User(firstName=..., lastName=..., age=..., email=...) of row i of
\* upload u; the field values play no part, the row it came from does
User(u, i) == <<u, i>>

\* the list built from chunk k of upload u (main.py:77-85), in row order
ChunkUsers(u, k, n) ==
    [j \in 1..(Min(k * chunk_size, n) - (k - 1) * chunk_size)
        |-> User(u, (k - 1) * chunk_size + j)]

\* a batch is a Python list object: up and chunk stand for its identity
Batch(u, k, n) == [up |-> u, chunk |-> k, users |-> ChunkUsers(u, k, n)]
NoBatch == [up |-> 0, chunk |-> 0, users |-> <<>>]

Range(s) == {s[i] : i \in 1..Len(s)}

VARIABLES
    queue,        \* asyncio.Queue: the batches waiting, head first
    unfinished,   \* asyncio.Queue._unfinished_tasks
    store,        \* the users table, in insert order
    wpc,          \* where each worker task is
    wbatch,       \* the batch a worker took and has not yet settled
    wopen,        \* the worker's session is open
    attached,     \* the User objects attached to the worker's session
    ufile,        \* the file of each upload request
    upc,          \* where each upload's producer task is
    unext,        \* the batches the producer has put on the queue
    resp,         \* the HTTP response to each upload request
    attemptFails, \* persistence attempts that have raised
    rollbackFails,\* times db.rollback() has raised
    failed,       \* per batch, the attempts that raised
    committed,    \* the batches whose commit returned
    budget,       \* the bounds of the run: requests, rows of a file, raising
                  \* attempts and raising rollbacks it may hold
    query         \* the last GET /users/ request and its response

vars == <<queue, unfinished, store, wpc, wbatch, wopen, attached, ufile, upc,
          unext, resp, attemptFails, rollbackFails, failed, committed,
          budget, query>>

workerVars == <<wpc, wbatch, wopen, attached>>
uploadVars == <<ufile, upc, unext, resp>>

\* no GET /users/ request yet
NoQuery == [page |-> 0, limit |-> 0, data |-> <<>>, total_pages |-> 0,
            next_page |-> FALSE]

BatchIds == Uploads \X (1..NumChunks(MaxRows))
Id(b) == <<b.up, b.chunk>>

\* the state once the module is loaded: an empty queue (main.py:29), an empty
\* table, five workers about to wait on the queue (main.py:58-59)
Started ==
    /\ queue = <<>>
    /\ unfinished = 0
    /\ store = <<>>
    /\ wpc = [w \in Workers |-> "WAITING"]
    /\ wbatch = [w \in Workers |-> NoBatch]
    /\ wopen = [w \in Workers |-> FALSE]
    /\ attached = [w \in Workers |-> {}]
    /\ ufile = [u \in Uploads |-> NoFile]
    /\ upc = [u \in Uploads |-> "none"]
    /\ unext = [u \in Uploads |-> 0]
    /\ resp = [u \in Uploads |-> "none"]
    /\ attemptFails = 0
    /\ rollbackFails = 0
    /\ failed = [b \in BatchIds |-> 0]
    /\ committed = {}
    /\ query = NoQuery

Init ==
    /\ Started
    /\ budget = [uploads |-> MaxUploads, rows |-> MaxRows,
                 attempts |-> MaxFailures, rollbacks |-> MaxRollbackFailures]

\* ------------------------------------------------------------------ upload

\* upload_csv without the extension check
UploadCsvUnchecked(u, f) ==
    /\ upc[u] = "none"
    /\ u <= budget.uploads
    /\ f.nrows <= budget.rows
    /\ \A v \in Uploads : v < u => upc[v] # "none"
    /\ ufile' = [ufile EXCEPT ![u] = f]
    /\ resp' = [resp EXCEPT ![u] = "processing"]
    /\ upc' = [upc EXCEPT ![u] = "start"]
    /\ UNCHANGED <<queue, unfinished, store, workerVars, unext, attemptFails,
                   rollbackFails, failed, committed, budget,
                   query>>

\* upload_csv (main.py:110-132): the extension check, then create_task and
\* the success response without waiting for the task
UploadCsv(u, f) ==
    /\ upc[u] = "none"
    /\ u <= budget.uploads
    /\ f.nrows <= budget.rows
    /\ \A v \in Uploads : v < u => upc[v] # "none"
    /\ ufile' = [ufile EXCEPT ![u] = f]
    /\ IF ~f.csv
          THEN /\ resp' = [resp EXCEPT ![u] = "400"]
               /\ upc' = [upc EXCEPT ![u] = "rejected"]
          ELSE /\ resp' = [resp EXCEPT ![u] = "processing"]
               /\ upc' = [upc EXCEPT ![u] = "start"]
    /\ UNCHANGED <<queue, unfinished, store, workerVars, unext, attemptFails,
                   rollbackFails, failed, committed, budget,
                   query>>

\* the chunks process_csv_async reads before it stops: all of them, or those
\* before the one whose parsing raises (main.py:76, 92)
ChunksRead(f) == IF f.bad = 0 THEN NumChunks(f.nrows) ELSE f.bad - 1

\* the batches the task puts on the queue, in the order of the puts
\* (main.py:76-88)
Produced(u, f) == [k \in 1..ChunksRead(f) |-> Batch(u, k, f.nrows)]

\* how the task ends: decode raises outside the try (main.py:72), a chunk that
\* raises becomes the HTTPException of line 94, which no request waits for
ProducerEnd(f) ==
    IF ~f.decodable THEN "crashed" ELSE IF f.bad # 0 THEN "failed" ELSE "done"

\* process_csv_async (main.py:63-94).  The task is never suspended: its only
\* await is queue.put on an unbounded queue
ProcessCsv(u) ==
    /\ upc[u] = "start"
    /\ LET f == ufile[u]
           new == IF f.decodable THEN Produced(u, f) ELSE <<>>
       IN  /\ queue' = queue \o new
           /\ unfinished' = unfinished + Len(new)
           /\ unext' = [unext EXCEPT ![u] = Len(new)]
           /\ upc' = [upc EXCEPT ![u] = ProducerEnd(f)]
    /\ UNCHANGED <<store, workerVars, ufile, resp, attemptFails, rollbackFails,
                   failed, committed, budget,
                   query>>

\* ------------------------------------------------------------------ worker

\* the workers suspended in queue.get() run the same code on the same state:
\* the one the queue wakes is taken to be the lowest-numbered
FirstWaiting(w) == \A v \in Workers : v < w => wpc[v] # "WAITING"

\* a get that leaves the batch on the queue
GetWithoutRemoving(w) ==
    /\ wpc[w] = "WAITING"
    /\ FirstWaiting(w)
    /\ queue # <<>>
    /\ wbatch' = [wbatch EXCEPT ![w] = Head(queue)]
    /\ wpc' = [wpc EXCEPT ![w] = "OPEN"]
    /\ UNCHANGED <<queue, unfinished, store, wopen, attached, uploadVars,
                   attemptFails, rollbackFails, failed, committed, budget,
                   query>>

\* batch = await queue.get()  (main.py:39)
Get(w) ==
    /\ wpc[w] = "WAITING"
    /\ FirstWaiting(w)
    /\ queue # <<>>
    /\ wbatch' = [wbatch EXCEPT ![w] = Head(queue)]
    /\ queue' = Tail(queue)
    /\ wpc' = [wpc EXCEPT ![w] = "OPEN"]
    /\ UNCHANGED <<unfinished, store, wopen, attached, uploadVars,
                   attemptFails, rollbackFails, failed, committed, budget,
                   query>>

\* Session.add_all raises when an object is still attached to another session
AttachedElsewhere(w, b) ==
    \E v \in Workers \ {w} : Range(b.users) \cap attached[v] # {}

\* an except clause that forgets the put
RequeueDropped(w) ==
    /\ attemptFails < budget.attempts
    /\ attemptFails' = attemptFails + 1
    /\ failed' = [failed EXCEPT ![Id(wbatch[w])] = @ + 1]
    /\ wbatch' = [wbatch EXCEPT ![w] = NoBatch]
    /\ wpc' = [wpc EXCEPT ![w] = "ROLLBACK"]
    /\ UNCHANGED <<queue, unfinished>>

\* an except clause that puts the batch back at the head of the queue
RequeueAtHead(w) ==
    /\ queue' = <<wbatch[w]>> \o queue
    /\ unfinished' = unfinished + 1
    /\ attemptFails < budget.attempts
    /\ attemptFails' = attemptFails + 1
    /\ failed' = [failed EXCEPT ![Id(wbatch[w])] = @ + 1]
    /\ wbatch' = [wbatch EXCEPT ![w] = NoBatch]
    /\ wpc' = [wpc EXCEPT ![w] = "ROLLBACK"]

\* the except clause up to its first await (main.py:50-51): the batch goes
\* back on the queue's tail before the rollback
Requeue(w) ==
    /\ queue' = Append(queue, wbatch[w])
    /\ unfinished' = unfinished + 1
    /\ attemptFails < budget.attempts
    /\ attemptFails' = attemptFails + 1
    /\ failed' = [failed EXCEPT ![Id(wbatch[w])] = @ + 1]
    /\ wbatch' = [wbatch EXCEPT ![w] = NoBatch]
    /\ wpc' = [wpc EXCEPT ![w] = "ROLLBACK"]

\* db = await anext(get_db()); db.add_all(batch)  (main.py:42-45)
OpenSession(w) ==
    /\ wpc[w] = "OPEN"
    /\ wopen' = [wopen EXCEPT ![w] = TRUE]
    /\ IF AttachedElsewhere(w, wbatch[w])
          THEN /\ Requeue(w)
               /\ UNCHANGED attached
          ELSE /\ attached' = [attached EXCEPT ![w] = Range(wbatch[w].users)]
               /\ wpc' = [wpc EXCEPT ![w] = "COMMIT"]
               /\ UNCHANGED <<queue, unfinished, failed, wbatch, attemptFails>>
    /\ UNCHANGED <<store, uploadVars, rollbackFails, committed, budget,
                   query>>

\* an insert that walks the list from its end
RECURSIVE Reversed(_)
Reversed(q) == IF q = <<>> THEN <<>> ELSE Append(Reversed(Tail(q)), Head(q))
InsertedReversed(b) == Reversed(b.users)

\* a commit per row that stops after the first
InsertedFirstOnly(b) == SubSeq(b.users, 1, Min(1, Len(b.users)))

\* the rows one committed transaction adds to the table
Inserted(b) == b.users

\* await db.commit() returns (main.py:46-49): the transaction is durable, then
\* queue.task_done()
CommitOk(w) ==
    /\ wpc[w] = "COMMIT"
    /\ store' = store \o Inserted(wbatch[w])
    /\ unfinished' = unfinished - 1
    /\ committed' = committed \cup {Id(wbatch[w])}
    /\ wbatch' = [wbatch EXCEPT ![w] = NoBatch]
    /\ wpc' = [wpc EXCEPT ![w] = "CLOSE"]
    /\ UNCHANGED <<queue, wopen, attached, uploadVars, attemptFails,
                   rollbackFails, failed, budget,
                   query>>

\* a failed attempt that reaches the upload's response
CommitFailSurfaced(w) ==
    /\ wpc[w] = "COMMIT"
    /\ resp' = [resp EXCEPT ![wbatch[w].up] = "500"]
    /\ Requeue(w)
    /\ UNCHANGED <<store, wopen, attached, ufile, upc, unext, rollbackFails,
                   committed, budget,
                   query>>

\* await db.commit() raises (main.py:46, 50-51): nothing of the transaction
\* is in the table.  When the flush raises, the session has already let go of
\* the objects it was given; when the COMMIT itself raises, it keeps them
\* until rollback() or close()
CommitFail(w) ==
    /\ wpc[w] = "COMMIT"
    /\ Requeue(w)
    /\ \E kept \in BOOLEAN :
          attached' = [attached EXCEPT ![w] = IF kept THEN @ ELSE {}]
    /\ UNCHANGED <<store, wopen, uploadVars, rollbackFails, committed, budget,
                   query>>

\* await db.rollback() returns (main.py:52-53): the session lets go of the
\* objects it was given
RollbackOk(w) ==
    /\ wpc[w] = "ROLLBACK"
    /\ attached' = [attached EXCEPT ![w] = {}]
    /\ wpc' = [wpc EXCEPT ![w] = "CLOSE"]
    /\ UNCHANGED <<queue, unfinished, store, wbatch, wopen, uploadVars,
                   attemptFails, rollbackFails, failed, committed, budget,
                   query>>

\* a close that is not in a finally clause
RollbackFailNoFinally(w) ==
    /\ wpc[w] = "ROLLBACK"
    /\ rollbackFails < budget.rollbacks
    /\ rollbackFails' = rollbackFails + 1
    /\ wpc' = [wpc EXCEPT ![w] = "DEAD"]
    /\ UNCHANGED <<queue, unfinished, store, wbatch, wopen, attached,
                   uploadVars, attemptFails, failed, committed, budget,
                   query>>

\* await db.rollback() raises (main.py:52): the finally clause still runs,
\* then the exception leaves the loop
RollbackFail(w) ==
    /\ wpc[w] = "ROLLBACK"
    /\ rollbackFails < budget.rollbacks
    /\ rollbackFails' = rollbackFails + 1
    /\ wpc' = [wpc EXCEPT ![w] = "CLOSE_RAISING"]
    /\ UNCHANGED <<queue, unfinished, store, wbatch, wopen, attached,
                   uploadVars, attemptFails, failed, committed, budget,
                   query>>

\* where the worker goes once the finally clause is through (main.py:37, 54-55)
AfterClose(pc) == IF pc = "CLOSE" THEN "WAITING" ELSE "DEAD"

\* finally: await db.close()  (main.py:54-55)
Close(w) ==
    /\ wpc[w] \in {"CLOSE", "CLOSE_RAISING"}
    /\ wopen' = [wopen EXCEPT ![w] = FALSE]
    /\ attached' = [attached EXCEPT ![w] = {}]
    /\ wpc' = [wpc EXCEPT ![w] = AfterClose(wpc[w])]
    /\ UNCHANGED <<queue, unfinished, store, wbatch, uploadVars, attemptFails,
                   rollbackFails, failed, committed, budget,
                   query>>

Next ==
    \/ \E u \in Uploads, f \in Files : UploadCsv(u, f)
    \/ \E u \in Uploads : ProcessCsv(u)
    \/ \E w \in Workers : Get(w)
    \/ \E w \in Workers : OpenSession(w)
    \/ \E w \in Workers : CommitOk(w)
    \/ \E w \in Workers : CommitFail(w)
    \/ \E w \in Workers : RollbackOk(w)
    \/ \E w \in Workers : RollbackFail(w)
    \/ \E w \in Workers : Close(w)

Spec == Init /\ [][Next]_vars

\* one upload of at most one chunk, and a store that can fail every worker
\* once
OutageInit ==
    /\ Started
    /\ budget = [uploads |-> 1, rows |-> chunk_size,
                 attempts |-> NumWorkers, rollbacks |-> NumWorkers]

OutageSpec == OutageInit /\ [][Next]_vars

\* the event loop runs every task that can run; a commit that is tried again
\* and again is not refused for ever
Fairness ==
    /\ \A u \in Uploads : WF_vars(ProcessCsv(u))
    /\ \A w \in Workers :
          /\ WF_vars(Get(w))
          /\ WF_vars(OpenSession(w))
          /\ WF_vars(CommitOk(w) \/ CommitFail(w))
          /\ SF_vars(CommitOk(w))
          /\ WF_vars(RollbackOk(w) \/ RollbackFail(w))
          /\ WF_vars(Close(w))

FairOutageSpec == OutageSpec /\ Fairness

\* ------------------------------------------------------------------- reads

\* an offset that skips the asked page as well
OffsetPastPage(page, limit) == page * limit

\* offset = (page - 1) * limit  (main.py:151)
Offset(page, limit) == (page - 1) * limit

\* select(models.User).offset(offset).limit(limit) on the table, in the
\* store's order (main.py:154-155)
PageOf(tbl, offset, limit) ==
    [j \in 1..Min(limit, IF Len(tbl) > offset THEN Len(tbl) - offset ELSE 0)
        |-> tbl[offset + j]]

\* a page count that rounds down
TotalPagesFloor(total, limit) == total \div limit

\* total_pages = (total_users + limit - 1) // limit  (main.py:163)
TotalPages(total, limit) == (total + limit - 1) \div limit

\* next_page = page < total_pages  (main.py:164)
NextPage(page, totalPages) == page < totalPages

\* get_users (main.py:135-171), with no write between its two selects
GetUsers(page, limit) ==
    /\ query' = [page |-> page, limit |-> limit,
                 data |-> PageOf(store, Offset(page, limit), limit),
                 total_pages |-> TotalPages(Len(store), limit),
                 next_page |-> NextPage(page, TotalPages(Len(store), limit))]
    /\ UNCHANGED <<queue, unfinished, store, workerVars, uploadVars,
                   attemptFails, rollbackFails, failed, committed, budget>>

\* a table that holds n rows of earlier uploads, an idle pipeline, no upload
\* to come
QueryInit ==
    /\ queue = <<>>
    /\ unfinished = 0
    /\ store \in {[i \in 1..n |-> User(0, i)] : n \in 0..MaxStored}
    /\ wpc = [w \in Workers |-> "WAITING"]
    /\ wbatch = [w \in Workers |-> NoBatch]
    /\ wopen = [w \in Workers |-> FALSE]
    /\ attached = [w \in Workers |-> {}]
    /\ ufile = [u \in Uploads |-> NoFile]
    /\ upc = [u \in Uploads |-> "none"]
    /\ unext = [u \in Uploads |-> 0]
    /\ resp = [u \in Uploads |-> "none"]
    /\ attemptFails = 0
    /\ rollbackFails = 0
    /\ failed = [b \in BatchIds |-> 0]
    /\ committed = {}
    /\ budget = [uploads |-> 0, rows |-> 0, attempts |-> 0, rollbacks |-> 0]
    /\ query = NoQuery

QueryNext == \E page \in 1..MaxPage, limit \in 1..MaxLimit : GetUsers(page, limit)

QuerySpec == QueryInit /\ [][QueryNext]_vars

\* ---------------------------------------------------------------- claims

\* the batches that were ever put on the queue
Enqueued == {id \in BatchIds : id[2] <= unext[id[1]]}

\* the User objects of an enqueued batch
UsersOf(id) == Range(ChunkUsers(id[1], id[2], ufile[id[1]].nrows))

\* how many times a batch is on the queue, and which workers hold it for an
\* attempt that has not ended
OnQueue(id) == Cardinality({i \in 1..Len(queue) : Id(queue[i]) = id})
Holding(w) == wpc[w] \in {"OPEN", "COMMIT"}
Holders(id) == {w \in Workers : Holding(w) /\ Id(wbatch[w]) = id}

\* the rows of the table that hold a given User, and those of upload u
RowsOf(r) == {i \in 1..Len(store) : store[i] = r}
StoredOf(u) == {i \in 1..Len(store) : store[i][1] = u}

Valid(f) == f.csv /\ ~Malformed(f)

\* a worker's attempt ends in this step
AttemptEnds(w) == Holding(w) /\ wpc'[w] \in {"CLOSE", "ROLLBACK"}

\* C1: the store never holds some but not all records of a batch, and every
\* attempt ends either with the whole batch in the store and off the queue,
\* or with none of it added to the store and the whole batch at the queue's
\* tail
C1_NoPartialBatch ==
    \A id \in Enqueued :
        \/ UsersOf(id) \cap Range(store) = {}
        \/ UsersOf(id) \subseteq Range(store)

C1_AttemptOutcome ==
    \A w \in Workers :
        AttemptEnds(w) =>
            LET b == wbatch[w]
                inStore == Range(b.users) \subseteq Range(store')
                requeued == queue' # <<>> /\ queue'[Len(queue')] = b
            IN  \/ inStore /\ Id(b) \in committed' /\ ~requeued
                   /\ \A i \in 1..Len(queue') : Id(queue'[i]) # Id(b)
                \/ store' = store /\ Id(b) \notin committed' /\ requeued

C1_BatchAtomicity == []C1_NoPartialBatch /\ [][C1_AttemptOutcome]_vars

\* a batch of two records was committed, another attempt raised
C1_Witness ==
    /\ attemptFails > 0
    /\ \E id \in committed : Cardinality(UsersOf(id)) = 2
    /\ \E i \in 1..Len(queue) : Len(queue[i].users) > 0

\* C2: once an attempt on a batch has committed, after any number K of
\* attempts that raised, every record of the batch is in the store exactly
\* once and the batch is neither on the queue nor held by a worker
C2_ExactlyOnce ==
    \A id \in committed :
        /\ \A r \in UsersOf(id) : Cardinality(RowsOf(r)) = 1
        /\ OnQueue(id) = 0
        /\ Holders(id) = {}

\* a batch of two records committed after two attempts that raised
C2_Witness ==
    \E id \in committed : failed[id] >= 2 /\ Cardinality(UsersOf(id)) = 2

\* C3: under fair scheduling and a store that does not refuse a batch for
\* ever, every valid upload with N data rows leads to a state with exactly N
\* of its records in the store
C3_EventuallyPersisted ==
    \A u \in Uploads :
        (upc[u] = "start" /\ Valid(ufile[u]))
            ~> (Cardinality(StoredOf(u)) = ufile[u].nrows)

\* C4: an upload whose parsing fails puts no batch on the queue and no
\* record in the store
C4_AllOrNothingUpload ==
    \A u \in Uploads :
        (upc[u] # "none" /\ Malformed(ufile[u])) =>
            /\ unext[u] = 0
            /\ StoredOf(u) = {}

\* C5: the response to an upload of malformed content is an error, never the
\* success response
C5_MalformedAnsweredWithError ==
    \A u \in Uploads :
        (resp[u] # "none" /\ Malformed(ufile[u])) => resp[u] # "processing"

\* C6: an upload whose filename does not end in ".csv" is answered 400,
\* starts no producer task, and leaves the queue, the workers and the store
\* as they were; nothing of it is ever enqueued
C6_RejectedStep ==
    \A u \in Uploads :
        (upc[u] = "none" /\ upc'[u] # "none" /\ ~ufile'[u].csv) =>
            /\ resp'[u] = "400"
            /\ upc'[u] = "rejected"
            /\ UNCHANGED <<queue, unfinished, store, workerVars, unext>>

C6_NothingOfRejected ==
    \A u \in Uploads :
        (upc[u] # "none" /\ ~ufile[u].csv) =>
            /\ upc[u] = "rejected"
            /\ resp[u] = "400"
            /\ unext[u] = 0
            /\ \A i \in 1..Len(queue) : queue[i].up # u
            /\ StoredOf(u) = {}

C6_RejectedUploadFrame == []C6_NothingOfRejected /\ [][C6_RejectedStep]_vars

\* an upload was rejected while batches of another were queued and held
C6_Witness ==
    \E u \in Uploads :
        /\ upc[u] = "rejected"
        /\ queue # <<>>
        /\ \E w \in Workers : wpc[w] = "COMMIT"

\* C7: every upload whose filename ends in ".csv" is answered with the
\* success message; a response once given never changes, and no step of a
\* worker gives or changes one
C7_AcceptedAnswered ==
    \A u \in Uploads :
        (upc[u] # "none" /\ ufile[u].csv) => resp[u] = "processing"

C7_ResponseStep ==
    /\ \A u \in Uploads : resp[u] # "none" => resp'[u] = resp[u]
    /\ (wpc' # wpc \/ upc' = upc) => resp' = resp

C7_ErrorsContained == []C7_AcceptedAnswered /\ [][C7_ResponseStep]_vars

\* an accepted upload whose file was malformed, and an attempt that raised
C7_Witness ==
    /\ attemptFails > 0
    /\ \E u \in Uploads :
         ufile[u].csv /\ Malformed(ufile[u]) /\ resp[u] = "processing"

\* C8: a worker that waits for a batch, has just taken one, or has stopped
\* holds no open session, whichever way its last attempt ended
C8_SessionReleased ==
    \A w \in Workers : wopen[w] => wpc[w] \notin {"WAITING", "OPEN", "DEAD"}

\* one worker stopped after a rollback that raised, one is back waiting
\* after a commit; both sessions are closed
C8_Witness ==
    /\ \E w \in Workers : wpc[w] = "DEAD" /\ ~wopen[w]
    /\ committed # {}
    /\ \A w \in Workers : wpc[w] \in {"WAITING", "DEAD"}

\* the rows of the batches put on the queue so far
RowsEnqueued(u) == IF unext[u] = 0 THEN 0
                   ELSE Min(unext[u] * chunk_size, ufile[u].nrows)

RECURSIVE SumRows(_)
SumRows(U) == IF U = {} THEN 0
              ELSE LET u == CHOOSE x \in U : TRUE
                   IN  RowsEnqueued(u) + SumRows(U \ {u})

\* C9: every batch ever enqueued is in exactly one place: once on the queue,
\* held by one worker, or committed; so when no producer is left to run, the
\* queue is empty and every worker waits, the store holds as many rows as
\* were parsed into batches
C9_OwnershipConserved ==
    /\ \A id \in Enqueued :
          OnQueue(id) + Cardinality(Holders(id))
              + (IF id \in committed THEN 1 ELSE 0) = 1
    /\ (/\ \A u \in Uploads : upc[u] # "start"
        /\ queue = <<>>
        /\ \A w \in Workers : wpc[w] = "WAITING")
         => Len(store) = SumRows(Uploads)

\* both uploads were parsed, an attempt raised, and everything has settled
C9_Witness ==
    /\ \A u \in Uploads : upc[u] \in {"done", "failed"}
    /\ queue = <<>>
    /\ \A w \in Workers : wpc[w] = "WAITING"
    /\ attemptFails > 0
    /\ Len(store) >= MaxRows

\* C10: no worker ever stops: each is waiting for a batch or working on one
C10_PoolNeverShrinks ==
    \A w \in Workers :
        wpc[w] \in {"WAITING", "OPEN", "COMMIT", "ROLLBACK", "CLOSE"}

\* C11: a batch that has not been committed is never dropped (it is on the
\* queue or held by a worker), and under fair scheduling it is taken for
\* another attempt again and again until one commits
C11_NeverDropped ==
    \A id \in Enqueued \ committed :
        OnQueue(id) + Cardinality(Holders(id)) = 1

C11_UnconditionalRetry ==
    /\ []C11_NeverDropped
    /\ \A id \in BatchIds :
          [](id \in Enqueued \ committed =>
                <>(Holders(id) # {} \/ id \in committed))

\* the ids on the queue, head first
QueueIds(q) == [i \in 1..Len(q) |-> Id(q[i])]

\* C12: the queue is first in, first out: a get takes the head, a put (of a
\* fresh batch or of a batch whose attempt raised) goes behind everything
\* that is on the queue, and nothing on the queue changes place
C12_FifoStep ==
    \/ queue' = queue
    \/ /\ queue # <<>>
       /\ \E w \in Workers : wpc[w] = "WAITING" /\ wbatch'[w] = Head(queue)
       /\ queue' = Tail(queue)
    \/ /\ Len(queue') > Len(queue)
       /\ SubSeq(queue', 1, Len(queue)) = queue
       /\ \A w \in Workers :
             AttemptEnds(w) /\ wpc'[w] = "ROLLBACK" =>
                /\ queue'[Len(queue')] = wbatch[w]
                /\ \A i \in 1..Len(queue) : Id(queue[i]) # Id(wbatch[w])

C12_QueueOrdering == [][C12_FifoStep]_vars

\* a batch whose attempt raised waits behind a batch that was never tried
C12_Witness ==
    \E i, j \in 1..Len(queue) :
        /\ i < j
        /\ failed[Id(queue[i])] = 0
        /\ failed[Id(queue[j])] > 0

\* row r of upload u, as the file has it
InputRow(u, r) == <<u, r>>

\* the committed batch id lies in the store from position p on, in the row
\* order of its chunk
LiesAt(id, p) ==
    LET n == Cardinality(UsersOf(id))
    IN  /\ p + n - 1 <= Len(store)
        /\ \A j \in 1..n :
              store[p + j - 1] = InputRow(id[1], (id[2] - 1) * chunk_size + j)

\* the records of a batch are one chunk's rows of one upload, in row order
Unmixed(b) ==
    \A j \in 1..Len(b.users) :
        b.users[j] = InputRow(b.up, (b.chunk - 1) * chunk_size + j)

\* C13: whatever the interleaving of uploads, attempts and requeues, a
\* committed batch lies in the store as the rows of its chunk in input order,
\* and a batch on the queue or with a worker never holds records of another
\* batch
C13_RowOrderKept ==
    /\ \A id \in committed : \E p \in 1..(Len(store) + 1) : LiesAt(id, p)
    /\ \A i \in 1..Len(queue) : Unmixed(queue[i])
    /\ \A w \in Workers : Unmixed(wbatch[w])

\* batches of the two uploads are committed out of upload order after an
\* attempt raised, one of them with two rows
C13_Witness ==
    /\ attemptFails > 0
    /\ \E i, j \in 1..Len(store) :
          i < j /\ store[i][1] = 2 /\ store[j][1] = 1
    /\ \E id \in committed : Cardinality(UsersOf(id)) = 2 /\ failed[id] > 0

\* C16: when an attempt raises, the session is rolled back before the batch
\* goes back on the queue: at the moment the exception is caught and the
\* rollback is still to come, the batch is not on the queue
C16_RollbackBeforeRequeue ==
    [][\A w \in Workers :
          (AttemptEnds(w) /\ wpc'[w] = "ROLLBACK") =>
              \A i \in 1..Len(queue') : Id(queue'[i]) # Id(wbatch[w])]_vars

\* C17: the objects of a batch that a worker has taken for an attempt are
\* attached to no other worker's session
C17_ExclusiveOwnership ==
    \A w, v \in Workers :
        (w # v /\ Holding(v)) => Range(wbatch[v].users) \cap attached[w] = {}

\* the batches that are on the queue or with a worker for an attempt
Outstanding == Len(queue) + Cardinality({w \in Workers : Holding(w)})

\* C19: the queue's count of unfinished tasks is the number of batches on
\* the queue or held by a worker
C19_UnfinishedIsOutstanding == unfinished = Outstanding

\* the batches a step puts on the queue, and their records end to end
NewBatches == SubSeq(queue', Len(queue) + 1, Len(queue'))

RECURSIVE Concat(_)
Concat(bs) == IF bs = <<>> THEN <<>> ELSE Head(bs).users \o Concat(Tail(bs))

InputRows(u, n) == [r \in 1..n |-> InputRow(u, r)]

\* t is the least number of chunks of c rows that hold n rows
IsCeil(t, n, c) == t * c >= n /\ (t - 1) * c < n

\* no batch is over the chunk size, all but the last are full, in the order
\* of the puts they are the chunks of the file, and end to end its rows
Partitioned(u, bs, n) ==
    /\ \A i \in 1..Len(bs) :
          /\ Len(bs[i].users) <= chunk_size
          /\ i < Len(bs) => Len(bs[i].users) = chunk_size
          /\ bs[i].up = u /\ bs[i].chunk = i
    /\ Concat(bs) = InputRows(u, n)

\* the producer of a valid upload runs to its end in this step
Produces(u) == upc[u] = "start" /\ upc'[u] = "done"

\* C18 as stated: a valid upload with N rows enqueues exactly ceil(N / c)
\* batches that partition its rows in input order
C18_CeilBatches ==
    [][\A u \in Uploads :
          Produces(u) =>
              /\ IsCeil(Len(NewBatches), ufile[u].nrows, chunk_size)
              /\ Partitioned(u, NewBatches, ufile[u].nrows)]_vars

\* C18 amended: a valid upload with N >= 1 rows enqueues exactly ceil(N / c)
\* batches, one with no data rows enqueues one empty batch; the batches
\* partition the rows in input order
C18_CeilBatchesOrOneEmpty ==
    [][\A u \in Uploads :
          Produces(u) =>
              /\ IF ufile[u].nrows = 0
                    THEN Len(NewBatches) = 1
                    ELSE IsCeil(Len(NewBatches), ufile[u].nrows, chunk_size)
              /\ Partitioned(u, NewBatches, ufile[u].nrows)]_vars

\* a valid upload whose last batch is not full has been enqueued
C18_Witness ==
    \E u \in Uploads :
        /\ upc[u] = "done"
        /\ ufile[u].nrows > chunk_size
        /\ ufile[u].nrows % chunk_size # 0
        /\ unext[u] > 1

Max(a, b) == IF a > b THEN a ELSE b

\* a GET /users/ request has been answered
Answered == query.page > 0

\* C14: total_pages is ceil(totalCount / limit) and next_page is
\* page < total_pages; an empty table gives 0 pages and no next page
C14_PaginationTotals ==
    Answered =>
        /\ IsCeil(query.total_pages, Len(store), query.limit)
        /\ query.next_page <=> (query.page < query.total_pages)
        /\ Len(store) = 0 => (query.total_pages = 0 /\ ~query.next_page)

\* page 1 of 25 users at 10 a page: 3 pages, and a next page
C14_Witness ==
    /\ Len(store) = 25 /\ query.page = 1 /\ query.limit = 10
    /\ query.total_pages = 3 /\ query.next_page

\* C15: the page holds min(limit, max(0, totalCount - (page-1)*limit))
\* records, the store-order slice from offset (page-1)*limit on, and
\* next_page is false exactly when the slice reaches or passes the last record
C15_PageContents ==
    Answered =>
        LET off == (query.page - 1) * query.limit
            total == Len(store)
        IN  /\ Len(query.data) = Min(query.limit, Max(0, total - off))
            /\ \A j \in 1..Len(query.data) : query.data[j] = store[off + j]
            /\ ~query.next_page <=> (off + query.limit >= total)

\* page 3 of 25 users at 10 a page: the last 5 records and no next page
C15_Witness ==
    /\ Len(store) = 25 /\ query.page = 3 /\ query.limit = 10
    /\ Len(query.data) = 5 /\ query.data[1] = store[21]
    /\ ~query.next_page

====
